---- MODULE Spec2Model ----
(***************************************************************************)
(* Global pub/sub API: two regional stacks, each with a GraphQL API        *)
(* (publish, publishFromBus, subscribe, unsubscribe), an event bus         *)
(* 'AppSyncEventBus' with the rule 'appsync-rule' (target: the API's       *)
(* publishFromBus mutation) and one cross-region rule whose target is the  *)
(* peer region's event bus.                                                *)
(*                                                                         *)
(* Both regions run the stack definition of region 1 (same bus name, same  *)
(* API, same 'appsync-rule'); the actions take the region as a parameter.  *)
(* The rules are modelled as declared: a rule invokes its target for every *)
(* event on its bus that matches its eventPattern.                         *)
(***************************************************************************)
EXTENDS Integers, Sequences, FiniteSets, TLC

\* ---------------------------------------------------------------- bounds
\* Spec explores the subscription side: MaxPublish client publish calls,
\* MaxSubs subscription slots, MaxHops bus-to-bus forwards of one event.
MaxPublish == 2
MaxSubs == 2
MaxHops == 1
\* RelaySpec explores the relay between the buses: RelayPublish client
\* publish calls, RelayHops bus-to-bus forwards of one event.  The hop caps
\* are guards of the next-state relations only; the rules have no such limit.
RelayPublish == 1
RelayHops == 3
\* ApiSpec explores what a client can do with the API key: ApiPublish
\* publish calls, ApiHops forwards of one event, ApiDirect client calls of
\* publishFromBus in a region.
ApiPublish == 1
ApiHops == 1
ApiDirect == 1

\* ------------------------------------------------------- value universes
Regions == {1, 2}
\* channel names a client may use; "news" is outside the subscription filter
Names == {"cars", "news"}
Payloads == {"p1"}
SubIds == 1..MaxSubs
Pids == 1..MaxPublish

\* the other region of the two-region deployment
Peer(r) == 3 - r

\* ----------------------------------------------------- strings and JSON
\* A string is held as one value; Tokens gives its characters, in runs: a run
\* of ordinary characters is one token, and the characters the templates and
\* the JSON readers treat specially are tokens of their own.  In a string of
\* this module <q> stands for the double quote and <bs> for the backslash.
QUOTE == "<q>"
BACKSLASH == "<bs>"

\* a name that closes the "name" member of the Detail text and opens another
InjectedName == "cars<bs><q>,<bs><q>x<bs><q>:<bs><q>y"
\* a name that closes the "name" member of the Detail text and leaves rubbish
BrokenName == "ca<bs><q>rs"
\* a name that ends the Detail string of the request body early
RawQuoteName == "ca<q>rs"

\* names a client may pass besides the ordinary ones
CraftedNames == {InjectedName, BrokenName, RawQuoteName}

\* the characters of string s; a string not listed holds ordinary characters
Tokens(s) ==
    CASE s = InjectedName ->
            << "cars", BACKSLASH, QUOTE, ",", BACKSLASH, QUOTE, "x",
               BACKSLASH, QUOTE, ":", BACKSLASH, QUOTE, "y" >>
      [] s = BrokenName -> << "ca", BACKSLASH, QUOTE, "rs" >>
      [] s = RawQuoteName -> << "ca", QUOTE, "rs" >>
      [] s = "" -> << >>
      [] OTHER -> << s >>

\* the string with the characters toks
RECURSIVE Text(_)
Text(toks) == IF toks = << >> THEN "" ELSE Head(toks) \o Text(Tail(toks))

\* reads the content of a JSON string literal from toks[i] on, up to the
\* closing quote: the characters it denotes and the place after the quote
RECURSIVE ReadString(_, _, _)
ReadString(toks, i, acc) ==
    IF i > Len(toks) THEN [ok |-> FALSE, val |-> << >>, next |-> i]
    ELSE IF toks[i] = QUOTE THEN [ok |-> TRUE, val |-> acc, next |-> i + 1]
    ELSE IF toks[i] = BACKSLASH
         THEN IF i < Len(toks) /\ toks[i + 1] \in {QUOTE, BACKSLASH}
              THEN ReadString(toks, i + 2, Append(acc, toks[i + 1]))
              ELSE [ok |-> FALSE, val |-> << >>, next |-> i]
    ELSE ReadString(toks, i + 1, Append(acc, toks[i]))

\* a template's text between two quotes, read as a JSON string literal: the
\* value, or no value when the text holds a quote of its own
JsonString(toks) ==
    LET r == ReadString(toks \o << QUOTE >>, 1, << >>) IN
    IF r.ok /\ r.next = Len(toks) + 2
    THEN [ok |-> TRUE, val |-> r.val]
    ELSE [ok |-> FALSE, val |-> << >>]

\* the first place at or after i that holds no blank
RECURSIVE SkipBlanks(_, _)
SkipBlanks(toks, i) ==
    IF i <= Len(toks) /\ toks[i] = " " THEN SkipBlanks(toks, i + 1) ELSE i

NoObject == [ok |-> FALSE, fields |-> << >>]

\* reads the members of a JSON object of string members from toks[i] on; a
\* key given twice keeps its last value
RECURSIVE ReadMembers(_, _, _)
ReadMembers(toks, i, fields) ==
    LET k0 == SkipBlanks(toks, i) IN
    IF ~(k0 <= Len(toks) /\ toks[k0] = QUOTE) THEN NoObject
    ELSE
    LET key == ReadString(toks, k0 + 1, << >>)
        c0 == SkipBlanks(toks, key.next) IN
    IF ~(key.ok /\ c0 <= Len(toks) /\ toks[c0] = ":") THEN NoObject
    ELSE
    LET v0 == SkipBlanks(toks, c0 + 1) IN
    IF ~(v0 <= Len(toks) /\ toks[v0] = QUOTE) THEN NoObject
    ELSE
    LET val == ReadString(toks, v0 + 1, << >>)
        e0 == SkipBlanks(toks, val.next)
        got == (Text(key.val) :> Text(val.val)) @@ fields IN
    IF ~(val.ok /\ e0 <= Len(toks)) THEN NoObject
    ELSE IF toks[e0] = "," THEN ReadMembers(toks, e0 + 1, got)
    ELSE IF toks[e0] = "}" /\ SkipBlanks(toks, e0 + 1) = Len(toks) + 1
         THEN [ok |-> TRUE, fields |-> got]
    ELSE NoObject

\* a text read as a JSON object of string members
JsonObject(toks) ==
    LET b == SkipBlanks(toks, 1) IN
    IF b <= Len(toks) /\ toks[b] = "{" THEN ReadMembers(toks, b + 1, << >>)
    ELSE NoObject

\* the text between the quotes of "Detail" in the publish request template,
\* with the arguments put in as they are
DetailTemplate(name, message) ==
    << "{", " ", BACKSLASH, QUOTE, "name", BACKSLASH, QUOTE, ":", " ",
       BACKSLASH, QUOTE >>
    \o Tokens(name)
    \o << BACKSLASH, QUOTE, ",", BACKSLASH, QUOTE, "message", BACKSLASH, QUOTE,
          ":", " ", BACKSLASH, QUOTE >>
    \o Tokens(message)
    \o << BACKSLASH, QUOTE, "}" >>

\* the Detail string of the PutEvents request: no value when the request
\* body is no JSON document
DetailString(name, message) == JsonString(DetailTemplate(name, message))

\* the Detail string read by the event bus: no object when it is malformed
DetailObject(name, message) ==
    IF DetailString(name, message).ok
    THEN JsonObject(DetailString(name, message).val)
    ELSE NoObject

\* the strings a template can be handed: the arguments of a call, the
\* members of a Detail object, and what reading them back yields
TemplateStrings ==
    LET args == Names \cup CraftedNames \cup Payloads \cup {""}
        members == UNION {{DetailObject(n, m).fields[k] :
                              k \in DOMAIN DetailObject(n, m).fields} :
                           n \in Names \cup CraftedNames, m \in Payloads}
        ReadBack(S) == S \cup {Text(JsonString(Tokens(s)).val) : s \in S}
    IN  ReadBack(ReadBack(args \cup members))

\* for each string, what the JSON reader gets from it between two quotes
QuotedTable == [s \in TemplateStrings |-> JsonString(Tokens(s))]

\* a template's "$arg" between quotes: the string the JSON reader gets
Quoted(s) == QuotedTable[s]

\* ------------------------------------------------------------ bus rules
\* name of the cross-region rule deployed on the bus of region r
CrossRuleName(r) == IF r = 1 THEN "toAppSyncRegion2" ELSE "toAppSyncRegion1"

\* RulesOn without the cross-region rule
RulesOnLocalOnly(r) == {"appsync-rule"}

\* rules attached to the bus 'AppSyncEventBus' of region r
RulesOn(r) == {"appsync-rule", CrossRuleName(r)}

\* eventPattern shared by all three rules: source and detail-type
EventPattern == [source |-> {"appsync"}, detailType |-> {"channel update"}]

EventPatternMatches(ev) ==
    /\ ev.source \in EventPattern.source
    /\ ev.detailType \in EventPattern.detailType

\* PutEvents entry built by the publish request template.  pid and hops are
\* bookkeeping of the model (which client publish an event stems from, and
\* how many bus-to-bus forwards it went through); no rule reads them.
PublishEntry(name, message, pid) ==
    [source |-> "appsync", detailType |-> "channel update",
     detail |-> DetailObject(name, message).fields,
     pid |-> pid, hops |-> 0]

\* an event arriving on bus r: one pending target invocation per matching rule
PutEvents(r, ev) ==
    {[ev |-> ev, rule |-> rl] : rl \in {x \in RulesOn(r) : EventPatternMatches(ev)}}

\* inputTransformer of 'appsync-rule': the variables of the PublishFromBus
\* call, the values at $.detail.name and $.detail.message put between the
\* quotes of the input template and read back by the API
InputTransformer(ev) ==
    [name |-> Text(Quoted(ev.detail.name).val),
     message |-> Text(Quoted(ev.detail.message).val)]

\* the body the input template yields for the event is a JSON document
InputIsJson(ev) == Quoted(ev.detail.name).ok /\ Quoted(ev.detail.message).ok

\* --------------------------------------------------- subscription filters
FilterValues == {"cars", "robots", "tech", "music", "media"}

\* argument of setSubscriptionFilter in the subscribe response template
SubscriptionFilter ==
    [filterGroup |->
        << [filters |-> << [fieldName |-> "name", operator |-> "in",
                            value |-> FilterValues] >>] >>]

\* argument of setSubscriptionInvalidationFilter, for subscribe(name = n)
InvalidationFilter(n) ==
    [filterGroup |->
        << [filters |-> << [fieldName |-> "name", operator |-> "eq",
                            value |-> n] >>] >>]

\* Satisfies with the operator 'in' read as equality with the whole value
SatisfiesInAsEq(f, payload) ==
    IF f.operator = "eq" THEN payload[f.fieldName] = f.value
    ELSE IF f.operator = "in" THEN {payload[f.fieldName]} = f.value
    ELSE FALSE

\* one filter rule against a payload
Satisfies(f, payload) ==
    IF f.operator = "eq" THEN payload[f.fieldName] = f.value
    ELSE IF f.operator = "in" THEN payload[f.fieldName] \in f.value
    ELSE FALSE

\* a filter object against a payload: some group all of whose rules hold
FilterMatches(filter, payload) ==
    \E g \in 1..Len(filter.filterGroup) :
        \A i \in 1..Len(filter.filterGroup[g].filters) :
            Satisfies(filter.filterGroup[g].filters[i], payload)

\* ------------------------------------------------------------------ state
VARIABLES
    bus,           \* bus[r]: pending rule-target invocations of region r's bus
    status,        \* status[s]: "none" | "live" | "terminated"
    subRegion,     \* region whose API subscription s is connected to
    subName,       \* the name argument subscription s was opened with
    inbox,         \* inbox[s]: messages delivered to s, in delivery order
    terminations,  \* terminations[s]: termination notifications sent to s
    fanout,        \* fanout[r][p]: publishFromBus invocations of region r
                   \* that stem from publish call p (p = 0: from no
                   \* publish call, a client called publishFromBus)
    nextPid,       \* number of client publish calls so far, plus one
    response,      \* response[p]: what publish call p returned to its caller:
                   \* status "ok" with the Channel value, or "error"
    origin,        \* origin[p]: region publish call p was accepted in (0: none)
    request        \* request[p]: the arguments of publish call p

vars == << bus, status, subRegion, subName, inbox, terminations, fanout,
           nextPid, response, origin, request >>

NoResponse == [status |-> "none", name |-> "", message |-> ""]

ErrorResponse == [status |-> "error", name |-> "", message |-> ""]

Init ==
    /\ bus = [r \in Regions |-> {}]
    /\ status = [s \in SubIds |-> "none"]
    /\ subRegion = [s \in SubIds |-> 1]
    /\ subName = [s \in SubIds |-> "cars"]
    /\ inbox = [s \in SubIds |-> << >>]
    /\ terminations = [s \in SubIds |-> 0]
    /\ fanout = [r \in Regions |-> [p \in 0..MaxPublish |-> 0]]
    /\ nextPid = 1
    /\ response = [p \in Pids |-> NoResponse]
    /\ origin = [p \in Pids |-> 0]
    /\ request = [p \in Pids |-> [name |-> "", message |-> ""]]

\* ---------------------------------------------------------------- actions

\* subscription subscribe(name: n) on the API of region r
Subscribe(s, r, n) ==
    /\ status[s] = "none"
    /\ status' = [status EXCEPT ![s] = "live"]
    /\ subRegion' = [subRegion EXCEPT ![s] = r]
    /\ subName' = [subName EXCEPT ![s] = n]
    /\ UNCHANGED << bus, inbox, terminations, fanout, nextPid, response,
                    request, origin >>

\* Invalidated without the invalidation filter: every live subscription of r
InvalidatedAll(r, payload) ==
    {s \in SubIds : status[s] = "live" /\ subRegion[s] = r}

\* subscriptions of region r invalidated by invalidateSubscriptions(payload)
Invalidated(r, payload) ==
    {s \in SubIds : /\ status[s] = "live"
                    /\ subRegion[s] = r
                    /\ FilterMatches(InvalidationFilter(subName[s]), payload)}

\* Unsubscribe notifying the matching subscriptions but leaving them live
UnsubscribeNotifyOnly(r, n) ==
    LET hit == Invalidated(r, [name |-> n]) IN
    /\ hit # {}
    /\ terminations' = [s \in SubIds |->
                           IF s \in hit THEN terminations[s] + 1
                           ELSE terminations[s]]
    /\ UNCHANGED << bus, status, subRegion, subName, inbox, fanout, nextPid,
                    response, request, origin >>

\* mutation unsubscribe(name: n) on the API of region r
Unsubscribe(r, n) ==
    LET hit == Invalidated(r, [name |-> n]) IN
    /\ hit # {}
    /\ status' = [s \in SubIds |-> IF s \in hit THEN "terminated" ELSE status[s]]
    /\ terminations' = [s \in SubIds |->
                           IF s \in hit THEN terminations[s] + 1
                           ELSE terminations[s]]
    /\ UNCHANGED << bus, subRegion, subName, inbox, fanout, nextPid, response,
                    request, origin >>

\* the publish response template on status 200: the Channel value, the
\* arguments put between quotes as they are
PublishResponse(n, m) ==
    IF Quoted(n).ok /\ Quoted(m).ok
    THEN [status |-> "ok", name |-> Text(Quoted(n).val),
          message |-> Text(Quoted(m).val)]
    ELSE ErrorResponse

\* mutation publish(name: n, message: m) on the API of region r, PutEvents
\* answered with status 200 and the entry put on the bus
PublishAccepted(r, n, m) ==
    /\ nextPid \in Pids
    /\ DetailObject(n, m).ok
    /\ bus' = [bus EXCEPT ![r] = @ \cup PutEvents(r, PublishEntry(n, m, nextPid))]
    /\ response' = [response EXCEPT ![nextPid] = PublishResponse(n, m)]
    /\ origin' = [origin EXCEPT ![nextPid] = r]
    /\ request' = [request EXCEPT ![nextPid] = [name |-> n, message |-> m]]
    /\ nextPid' = nextPid + 1
    /\ UNCHANGED << status, subRegion, subName, inbox, terminations, fanout >>

\* mutation publish, PutEvents answered with status 200 and the entry
\* reported as failed in the body (a malformed Detail, or a failure inside
\* the event bus); the response template reads the status code alone
PublishEntryFailed(r, n, m) ==
    /\ nextPid \in Pids
    /\ DetailString(n, m).ok
    /\ response' = [response EXCEPT ![nextPid] = PublishResponse(n, m)]
    /\ request' = [request EXCEPT ![nextPid] = [name |-> n, message |-> m]]
    /\ nextPid' = nextPid + 1
    /\ UNCHANGED << bus, status, subRegion, subName, inbox, terminations,
                    fanout, origin >>

\* mutation publish answered with an error: the request template yields no
\* JSON document, or PutEvents answered with an error or another status
PublishRejected(r, n, m) ==
    /\ nextPid \in Pids
    /\ response' = [response EXCEPT ![nextPid] = ErrorResponse]
    /\ request' = [request EXCEPT ![nextPid] = [name |-> n, message |-> m]]
    /\ nextPid' = nextPid + 1
    /\ UNCHANGED << bus, status, subRegion, subName, inbox, terminations,
                    fanout, origin >>

\* subscriptions of region r that mutation publishFromBus(args) triggers
Triggered(r, args) ==
    {s \in SubIds : /\ status[s] = "live"
                    /\ subRegion[s] = r
                    /\ FilterMatches(SubscriptionFilter, args)}

\* the payload of the publishFromBus request template, the arguments put
\* between quotes as they are
Payload(args) ==
    [name |-> Text(Quoted(args.name).val),
     message |-> Text(Quoted(args.message).val)]

\* the publishFromBus request template yields a JSON document
PayloadIsJson(args) == Quoted(args.name).ok /\ Quoted(args.message).ok

\* the value a subscriber receives; pid tags the originating publish call
Delivered(args, pid) ==
    [name |-> Payload(args).name, message |-> Payload(args).message,
     pid |-> pid]

\* PublishFromBus handing the newest message to a subscriber first
PublishFromBusNewestFirst(r, args, pid) ==
    /\ fanout' = [fanout EXCEPT ![r][pid] = @ + 1]
    /\ inbox' = [s \in SubIds |->
                    IF PayloadIsJson(args) /\ s \in Triggered(r, Payload(args))
                    THEN << Delivered(args, pid) >> \o inbox[s]
                    ELSE inbox[s]]

\* mutation publishFromBus(name, message) on the API of region r
PublishFromBus(r, args, pid) ==
    /\ fanout' = [fanout EXCEPT ![r][pid] = @ + 1]
    /\ inbox' = [s \in SubIds |->
                    IF PayloadIsJson(args) /\ s \in Triggered(r, Payload(args))
                    THEN Append(inbox[s], Delivered(args, pid))
                    ELSE inbox[s]]

\* 'appsync-rule' of region r invokes its target for pending invocation d;
\* a body that is no JSON document is refused by the API
AppSyncRule(r, d) ==
    /\ d \in bus[r]
    /\ d.rule = "appsync-rule"
    /\ bus' = [bus EXCEPT ![r] = @ \ {d}]
    /\ IF InputIsJson(d.ev)
       THEN PublishFromBus(r, InputTransformer(d.ev), d.ev.pid)
       ELSE UNCHANGED << fanout, inbox >>
    /\ UNCHANGED << status, subRegion, subName, terminations, nextPid,
                    response, request, origin >>

\* a client calls mutation publishFromBus(name: n, message: m) on the API of
\* region r with the API key, as it calls publish
ClientPublishFromBus(r, n, m) ==
    /\ PublishFromBus(r, [name |-> n, message |-> m], 0)
    /\ UNCHANGED << bus, status, subRegion, subName, terminations, nextPid,
                    response, request, origin >>

\* the event as it arrives on the peer bus: unchanged but for the hop count
Forwarded(ev) == [ev EXCEPT !.hops = @ + 1]

\* the cross-region rule of region r puts the event on the peer region's bus
CrossRegionRule(r, d) ==
    /\ d \in bus[r]
    /\ d.rule = CrossRuleName(r)
    /\ bus' = [bus EXCEPT ![r] = @ \ {d},
                          ![Peer(r)] = @ \cup PutEvents(Peer(r), Forwarded(d.ev))]
    /\ UNCHANGED << status, subRegion, subName, inbox, terminations, fanout,
                    nextPid, response, request, origin >>

\* CrossRegionRuleFail giving up the event's other rule invocations as well
CrossRegionRuleFailDropsEvent(r, d) ==
    /\ d \in bus[r]
    /\ d.rule = CrossRuleName(r)
    /\ bus' = [bus EXCEPT ![r] = {x \in @ : x.ev # d.ev}]
    /\ UNCHANGED << status, subRegion, subName, inbox, terminations, fanout,
                    nextPid, response, request, origin >>

\* the cross-region rule's target (the peer bus) is unreachable: the
\* invocation is given up
CrossRegionRuleFail(r, d) ==
    /\ d \in bus[r]
    /\ d.rule = CrossRuleName(r)
    /\ bus' = [bus EXCEPT ![r] = @ \ {d}]
    /\ UNCHANGED << status, subRegion, subName, inbox, terminations, fanout,
                    nextPid, response, request, origin >>

\* the steps in which every rule invocation reaches its target, with at
\* most np publish calls, names from the set names, and at most nh forwards
\* of one event
NextReachable(np, nh, names) ==
    \/ \E s \in SubIds, r \in Regions, n \in Names : Subscribe(s, r, n)
    \/ \E r \in Regions, n \in Names : Unsubscribe(r, n)
    \/ \E r \in Regions, n \in names, m \in Payloads :
          nextPid <= np /\ PublishAccepted(r, n, m)
    \/ \E r \in Regions, n \in names, m \in Payloads :
          nextPid <= np /\ PublishEntryFailed(r, n, m)
    \/ \E r \in Regions, n \in names, m \in Payloads :
          nextPid <= np /\ PublishRejected(r, n, m)
    \/ \E r \in Regions : \E d \in bus[r] : AppSyncRule(r, d)
    \/ \E r \in Regions : \E d \in bus[r] :
          d.ev.hops < nh /\ CrossRegionRule(r, d)

\* the same, and the steps in which a forward fails
NextBounded(np, nh, names) ==
    \/ NextReachable(np, nh, names)
    \/ \E r \in Regions : \E d \in bus[r] : CrossRegionRuleFail(r, d)

Next == NextBounded(MaxPublish, MaxHops, Names)

Spec == Init /\ [][Next]_vars

RelayNext == NextBounded(RelayPublish, RelayHops, Names)

RelaySpec == Init /\ [][RelayNext]_vars

\* The relay while both buses are reachable, each rule invoking its target
\* for every event it matched (the event bus retries a pending invocation).
FairNext == NextReachable(RelayPublish, RelayHops, Names)

FairSpec ==
    /\ Init
    /\ [][FairNext]_vars
    /\ \A r \in Regions : WF_vars(\E d \in bus[r] : AppSyncRule(r, d))
    /\ \A r \in Regions :
          WF_vars(\E d \in bus[r] : d.ev.hops < RelayHops /\ CrossRegionRule(r, d))

\* The API as its clients can use it: ApiPublish publish calls with ordinary
\* and crafted names, ApiHops forwards of one event, and ApiDirect client
\* calls of publishFromBus per region.
ApiNext ==
    \/ NextBounded(ApiPublish, ApiHops, Names \cup CraftedNames)
    \/ \E r \in Regions, n \in Names, m \in Payloads :
          fanout[r][0] < ApiDirect /\ ClientPublishFromBus(r, n, m)

ApiSpec == Init /\ [][ApiNext]_vars

\* ----------------------------------------------------------------- claims

\* number of entries of inbox[s] that stem from publish call p
Copies(s, p) == Cardinality({i \in 1..Len(inbox[s]) : inbox[s][i].pid = p})

\* a filter read as the specification states it: every group has a predicate
\* that holds, 'eq' string equality, 'in' set membership
AndOfOrs(filter, payload) ==
    \A g \in 1..Len(filter.filterGroup) :
        \E i \in 1..Len(filter.filterGroup[g].filters) :
            LET f == filter.filterGroup[g].filters[i] IN
            \/ f.operator = "eq" /\ payload[f.fieldName] = f.value
            \/ f.operator = "in" /\ payload[f.fieldName] \in f.value

\* C3: a message handed to publishFromBus in region r is delivered to a live
\* subscription of r if and only if the subscription filter matches it under
\* AND-of-groups / OR-of-predicates semantics: the inboxes that grow in the
\* step are exactly those of the live subscriptions of r whose filter
\* (name in [cars, robots, tech, music, media]) holds of the message, so a
\* message on "cars" is delivered and one on "news" is not.
FilterDelivery_C3 ==
    [][\A r \in Regions : \A d \in bus[r] :
          AppSyncRule(r, d) =>
             LET m == InputTransformer(d.ev) IN
             \A s \in SubIds :
                /\ (inbox'[s] # inbox[s]) <=>
                       (/\ status[s] = "live"
                        /\ subRegion[s] = r
                        /\ AndOfOrs(SubscriptionFilter, m))
                /\ (inbox'[s] # inbox[s]) =>
                       (/\ m.name \in {"cars", "robots", "tech", "music", "media"}
                        /\ inbox'[s][Len(inbox'[s])].name = d.ev.detail.name
                        /\ inbox'[s][Len(inbox'[s])].message = d.ev.detail.message)]_vars

\* C3 witness: region 1 fanned out both publish calls while a subscription
\* was live there, and delivered only the one on "cars" to it.
FilterDelivery_C3_Witness ==
    \E s \in SubIds :
        /\ status[s] = "live"
        /\ subRegion[s] = 1
        /\ fanout[1][1] = 1
        /\ fanout[1][2] = 1
        /\ Len(inbox[s]) = 1
        /\ inbox[s][1].name = "cars"
        /\ inbox[s][1].pid = 2

\* C4: a subscription opened with subscribe(name = N) is delivered a message
\* only if the message's channel name equals N.
NameEquality_C4 ==
    \A s \in SubIds : \A i \in 1..Len(inbox[s]) : inbox[s][i].name = subName[s]

\* C5: unsubscribe(name = N) in region r terminates every live subscription
\* of r opened with name N, sending it exactly one termination notification
\* and no message; a terminated subscription stays terminated, keeps exactly
\* one termination notification and receives no further message.
Invalidation_C5 ==
    [][/\ \A r \in Regions, n \in Names :
             Unsubscribe(r, n) =>
                \A s \in SubIds :
                   (status[s] = "live" /\ subRegion[s] = r /\ subName[s] = n)
                      => /\ status'[s] = "terminated"
                         /\ terminations'[s] = 1
                         /\ inbox'[s] = inbox[s]
       /\ \A s \in SubIds :
             status[s] = "terminated" =>
                /\ status'[s] = "terminated"
                /\ terminations[s] = 1
                /\ terminations'[s] = 1
                /\ inbox'[s] = inbox[s]]_vars

\* C5 witness: a subscription was terminated before its region fanned out a
\* message on "cars", and received nothing.
Invalidation_C5_Witness ==
    \E s \in SubIds :
        /\ status[s] = "terminated"
        /\ terminations[s] = 1
        /\ inbox[s] = << >>
        /\ \E p \in Pids : fanout[subRegion[s]][p] = 1
        /\ \A p \in Pids : origin[p] # 0
        /\ \A r \in Regions : bus[r] = {}

ExactlyOnce_C1 ==
    \A s \in SubIds : \A p \in Pids : Copies(s, p) <= 1

\* C2: a region's cross-region rule forwards only events put on its bus by
\* its own publish mutation, never an event that arrived from the peer bus.
NoAmplification_C2 ==
    [][\A r \in Regions : \A d \in bus[r] :
          CrossRegionRule(r, d) => d.ev.hops = 0]_vars

\* C6: a region that is handed one publish call's event from its peer, however
\* often, runs publishFromBus for it once.
IdempotentInbound_C6 ==
    \A p \in Pids : \A r \in Regions :
        (origin[p] # 0 /\ r # origin[p]) => fanout[r][p] <= 1

\* the event of publish call p is on the bus of the peer of its origin
OnPeerBus(p) ==
    /\ origin[p] # 0
    /\ \E d \in bus[Peer(origin[p])] : d.ev.pid = p

\* publishFromBus ran in the origin region for publish call p
FannedOutAtOrigin(p) ==
    /\ origin[p] # 0
    /\ fanout[origin[p]][p] >= 1

\* C7: under fair scheduling of 'appsync-rule' and of the cross-region rule,
\* an event accepted from a client publish call eventually triggers
\* publishFromBus in the origin region and is eventually put on the peer
\* region's bus.
Routing_C7 ==
    \A p \in Pids :
        /\ (origin[p] # 0) ~> FannedOutAtOrigin(p)
        /\ (origin[p] # 0) ~> OnPeerBus(p)

\* C7 witness: publishFromBus ran for one publish call in both regions.
Routing_C7_Witness ==
    \E p \in Pids :
        /\ origin[p] # 0
        /\ fanout[origin[p]][p] >= 1
        /\ fanout[Peer(origin[p])][p] >= 1

\* C9: whatever becomes of the forwards of an accepted publish call, its
\* caller was answered with success, and the origin region's publishFromBus
\* invocation for it is pending on the origin bus or has run: a failed forward
\* neither fails the publish call nor takes the local delivery with it.
FailureIsolation_C9 ==
    \A p \in Pids :
        origin[p] # 0 =>
            /\ response[p].status = "ok"
            /\ \/ fanout[origin[p]][p] >= 1
               \/ \E d \in bus[origin[p]] :
                     d.rule = "appsync-rule" /\ d.ev.pid = p /\ d.ev.hops = 0

\* C9 witness: the forward of a publish call failed (nothing is pending and
\* the peer region never ran publishFromBus for it), a subscription of the
\* origin region was delivered the message, and the caller was answered "ok".
FailureIsolation_C9_Witness ==
    \E p \in Pids :
        /\ origin[p] # 0
        /\ \A r \in Regions : bus[r] = {}
        /\ fanout[Peer(origin[p])][p] = 0
        /\ fanout[origin[p]][p] = 1
        /\ response[p].status = "ok"
        /\ \E s \in SubIds : subRegion[s] = origin[p] /\ Copies(s, p) = 1

\* C10: the forwards caused by one publish call end by themselves: no event
\* on a bus has been forwarded as often as the explored runs allow.
Quiescence_C10 ==
    \A r \in Regions : \A d \in bus[r] : d.ev.hops < RelayHops

\* C11: unsubscribe(name = N) in region r leaves every subscription that is
\* not a live subscription of r opened with name N as it was: same status,
\* no termination notification, same inbox; and a live subscription has
\* never been sent a termination notification, so it goes on receiving the
\* matching messages (C3).
InvalidationFrame_C11 ==
    [][/\ \A r \in Regions, n \in Names :
             Unsubscribe(r, n) =>
                \A s \in SubIds :
                   ~(status[s] = "live" /\ subRegion[s] = r /\ subName[s] = n)
                      => /\ status'[s] = status[s]
                         /\ terminations'[s] = terminations[s]
                         /\ inbox'[s] = inbox[s]
       /\ \A s \in SubIds : status[s] = "live" => terminations[s] = 0]_vars

\* C11 witness: two subscriptions of one region opened with different names;
\* the one on "news" was terminated, the one on "cars" is live, was sent no
\* termination notification and has received both publish calls' messages.
InvalidationFrame_C11_Witness ==
    \E s, u \in SubIds :
        /\ subRegion[s] = subRegion[u]
        /\ subName[s] = "news" /\ status[s] = "terminated"
        /\ subName[u] = "cars" /\ status[u] = "live"
        /\ terminations[u] = 0
        /\ inbox[s] = << >>
        /\ Len(inbox[u]) = 2
        /\ inbox[u][1].pid # inbox[u][2].pid

\* C11 witness, other region: a subscription of region 2 opened with the same
\* name stayed live when region 1 ran unsubscribe.
InvalidationFrame_C11_OtherRegion ==
    \E s, u \in SubIds :
        /\ subRegion[s] = 1 /\ subRegion[u] = 2
        /\ subName[s] = "cars" /\ subName[u] = "cars"
        /\ status[s] = "terminated" /\ status[u] = "live"

\* C12: every message delivered to a subscriber has the channel name and the
\* payload of some earlier client publish call: nothing is delivered that no
\* publish call sent, and nothing is altered on the way through the Detail
\* text, the input transformer and publishFromBus.
NoSpuriousDelivery_C12 ==
    \A s \in SubIds : \A i \in 1..Len(inbox[s]) :
        \E p \in Pids :
            /\ p < nextPid
            /\ request[p].name = inbox[s][i].name
            /\ request[p].message = inbox[s][i].message

\* C13: a publish call answered with success returns the Channel value that
\* echoes its arguments, and its event was accepted onto the bus of its
\* region (so that local fan-out follows).
PublishAnswer_C13 ==
    \A p \in Pids :
        (p < nextPid /\ response[p].status = "ok") =>
            /\ response[p].name = request[p].name
            /\ response[p].message = request[p].message
            /\ origin[p] # 0

====
